---- MODULE Spec2Model ----
(***************************************************************************)
(* A model of wish.c, a line-oriented command interpreter: the tokenizer,  *)
(* the segment parser, the path registry, the executable resolver, the     *)
(* builtins, the external runner and the read/dispatch/wait loop of main.  *)
(*                                                                         *)
(* C strings are sequences of one-character strings; a char** array that   *)
(* ends with NULL is a sequence of such strings.                           *)
(* malloc, realloc and strdup are taken to succeed; fork, open, dup2,      *)
(* execv, chdir and waitpid can fail as the actions below say.  Init is    *)
(* the state of main after path_init, with a readable input.               *)
(***************************************************************************)
EXTENDS Integers, Sequences, FiniteSets, TLC

(***************************************************************************)
(* Bounds of the model.                                                    *)
(***************************************************************************)
\* longest input string given to split_tokens / parse_cmd_with_redir alone
MaxLen == 4
MaxSeg == 5
\* longest path registry given to resolve_exec alone
MaxPath == 3
\* number of lines the interpreter reads before end of input
MaxLines == 3
\* size of the process table of the modelled OS (fork fails when it is full)
MaxProcs == 4
\* capacity of kids[] in main (src/wish.c:389 declares 256 slots); scaled down
\* so that a line with more external segments than slots can be explored
KidsCap == 2

(***************************************************************************)
(* Characters and string literals of the source.                           *)
(***************************************************************************)
SP  == " "
TAB == "\t"
AMP == "&"
GT  == ">"
NL  == "\n"
CR  == "\r"
SLASH == "/"

WS == {SP, TAB}              \* the " \t" delimiter string of parse_cmd_with_redir

EXIT  == <<"e", "x", "i", "t">>
CD    == <<"c", "d">>
PATH  == <<"p", "a", "t", "h">>
BIN   == <<"/", "b", "i", "n">>

(***************************************************************************)
(* split_tokens and the loops inside it.                                   *)
(***************************************************************************)
\* strsep: index of the first character of s that is in delims, 0 if none
RECURSIVE strsep_at(_, _, _)
strsep_at(s, delims, k) ==
    IF k > Len(s) THEN 0
    ELSE IF s[k] \in delims THEN k
    ELSE strsep_at(s, delims, k + 1)

\* while (*tok == ' ' || *tok == '\t') tok++;
RECURSIVE skip_leading(_)
skip_leading(tok) ==
    IF tok # <<>> /\ tok[1] \in {SP, TAB} THEN skip_leading(Tail(tok)) ELSE tok

\* while (end > tok && (end[-1] == ' ' || end[-1] == '\t')) end--; *end = '\0';
RECURSIVE cut_trailing(_)
cut_trailing(tok) ==
    IF tok # <<>> /\ tok[Len(tok)] \in {SP, TAB}
    THEN cut_trailing(SubSeq(tok, 1, Len(tok) - 1))
    ELSE tok

\* trim, had the loop over the end of the token been left out
trim_front_only(tok) == skip_leading(tok)

trim(tok) == cut_trailing(skip_leading(tok))

\* the body of the while loop for one piece: the token appended, if any
keep_piece(out, tok) ==
    IF tok = <<>> THEN out                      \* if (*tok == '\0') continue;
    ELSE IF trim(tok) = <<>> THEN out           \* second if (*tok == '\0') continue;
    ELSE Append(out, trim(tok))                 \* out[n++] = strdup(tok);

\* while ((tok = strsep(&s, delims)) != NULL) ...
RECURSIVE split_loop(_, _, _)
split_loop(s, delims, out) ==
    LET k == strsep_at(s, delims, 1) IN
    IF k = 0 THEN keep_piece(out, s)            \* last piece; s becomes NULL
    ELSE split_loop(SubSeq(s, k + 1, Len(s)), delims,
                    keep_piece(out, SubSeq(s, 1, k - 1)))

split_tokens(s, delims) == split_loop(s, delims, <<>>)

\* while (n > 0 && (line[n-1] == '\n' || line[n-1] == '\r')) line[--n] = '\0';
RECURSIVE strip_newlines(_)
strip_newlines(line) ==
    IF line # <<>> /\ line[Len(line)] \in {NL, CR}
    THEN strip_newlines(SubSeq(line, 1, Len(line) - 1))
    ELSE line

(***************************************************************************)
(* parse_cmd_with_redir.  A NULL char* and a NULL char** are the empty     *)
(* sequence: every string and every argv the code hands on is non-empty.   *)
(* The result is the returned argv, *redir_path and the calls of err()     *)
(* made on the way, each named by the place in the source that makes it.   *)
(***************************************************************************)
NULL == <<>>

\* for (char *c = segment; *c; c++) if (*c == '>') gt_count++;
gt_count(segment) == Cardinality({k \in 1..Len(segment) : segment[k] = GT})

\* strchr(segment, '>'): index of the first '>', 0 if none
RECURSIVE strchr(_, _, _)
strchr(s, c, k) ==
    IF k > Len(s) THEN 0
    ELSE IF s[k] = c THEN k
    ELSE strchr(s, c, k + 1)

\* parse_cmd_with_redir without the count of '>': split at the first one
parse_first_redir_only(segment) ==
    LET gt    == strchr(segment, GT, 1)
        left  == IF gt > 0 THEN SubSeq(segment, 1, gt - 1) ELSE segment
        right == SubSeq(segment, gt + 1, Len(segment))
        r     == split_tokens(right, WS)
        argv  == split_tokens(left, WS)
    IN  IF gt > 0 /\ Len(r) # 1
        THEN [argv |-> NULL, redir |-> NULL, errs |-> <<"redir">>]
        ELSE IF argv = <<>>
        THEN [argv |-> NULL, redir |-> NULL, errs |-> <<>>]
        ELSE [argv |-> argv, redir |-> IF gt > 0 THEN r[1] ELSE NULL,
              errs |-> <<>>]

\* parse_cmd_with_redir, had the path been kept where the command is empty
parse_keeps_redir_path(segment) ==
    LET gt    == strchr(segment, GT, 1)
        left  == IF gt_count(segment) = 1 THEN SubSeq(segment, 1, gt - 1) ELSE segment
        right == SubSeq(segment, gt + 1, Len(segment))
        r     == split_tokens(right, WS)
        argv  == split_tokens(left, WS)
    IN  IF gt_count(segment) > 1
        THEN [argv |-> NULL, redir |-> NULL, errs |-> <<"gt_count">>]
        ELSE IF gt_count(segment) = 1 /\ Len(r) # 1
        THEN [argv |-> NULL, redir |-> NULL, errs |-> <<"redir">>]
        ELSE [argv |-> argv,
              redir |-> IF gt_count(segment) = 1 THEN r[1] ELSE NULL,
              errs |-> <<>>]

parse_cmd_with_redir(segment) ==
    LET gt    == strchr(segment, GT, 1)
        left  == IF gt_count(segment) = 1 THEN SubSeq(segment, 1, gt - 1) ELSE segment
        right == SubSeq(segment, gt + 1, Len(segment))
        r     == split_tokens(right, WS)
        argv  == split_tokens(left, WS)
    IN  IF gt_count(segment) > 1
        THEN [argv |-> NULL, redir |-> NULL, errs |-> <<"gt_count">>]
        ELSE IF gt_count(segment) = 1 /\ Len(r) # 1      \* !r[0] || r[1]
        THEN [argv |-> NULL, redir |-> NULL, errs |-> <<"redir">>]
        ELSE IF argv = <<>>                               \* !argv[0]: no err()
        THEN [argv |-> NULL, redir |-> NULL, errs |-> <<>>]
        ELSE [argv |-> argv,
              redir |-> IF gt_count(segment) = 1 THEN r[1] ELSE NULL,
              errs |-> <<>>]

(***************************************************************************)
(* The file system the interpreter runs on.  Paths are compared as written *)
(* (no ".." or "//" occurs in the inputs), a relative path is taken from   *)
(* the working directory of the calling process.                           *)
(***************************************************************************)
USR  == <<"/", "u">>
HOME == <<"/", "h">>
LS   == <<"l", "s">>
SH   == <<"s", "h">>
SUB  == <<"d">>
OUT  == <<"o">>

join(dir, name) == dir \o <<SLASH>> \o name       \* snprintf(p, need, "%s/%s", ...)

abspath(wd, p) == IF p # <<>> /\ p[1] = SLASH THEN p ELSE join(wd, p)

\* directories: chdir succeeds on them
Directories == {BIN, USR, HOME, join(BIN, SUB)}
\* program files execv can run
Programs == {join(BIN, LS), join(USR, LS), join(USR, SH)}
\* access(p, X_OK) == 0: programs, and directories (search permission)
access_ok(wd, p) == abspath(wd, p) \in Programs \cup Directories
\* execv(prog, argv) succeeds
execv_ok(wd, prog) == abspath(wd, prog) \in Programs
\* the files open(p, O_CREAT|O_WRONLY|O_TRUNC, 0666) can create or truncate:
\* a file named o in a directory
Openable == {join(d, OUT) : d \in Directories}
open_ok(wd, p) == abspath(wd, p) \in Openable
\* chdir(p) == 0
chdir_ok(wd, p) == abspath(wd, p) \in Directories

(***************************************************************************)
(* resolve_exec over the registry dirs (the array g_path), NULL if none.   *)
(***************************************************************************)
\* resolve_from, had the loop run from the last directory to the first
RECURSIVE resolve_backwards(_, _, _, _)
resolve_backwards(dirs, wd, cmd, k) ==
    IF k > Len(dirs) THEN NULL
    ELSE IF access_ok(wd, join(dirs[Len(dirs) + 1 - k], cmd))
    THEN join(dirs[Len(dirs) + 1 - k], cmd)
    ELSE resolve_backwards(dirs, wd, cmd, k + 1)

RECURSIVE resolve_from(_, _, _, _)
resolve_from(dirs, wd, cmd, k) ==
    IF k > Len(dirs) THEN NULL
    ELSE IF access_ok(wd, join(dirs[k], cmd)) THEN join(dirs[k], cmd)
    ELSE resolve_from(dirs, wd, cmd, k + 1)

resolve_exec(dirs, wd, cmd) ==
    IF dirs = <<>> THEN NULL                      \* !g_path || !g_path[0]
    ELSE resolve_from(dirs, wd, cmd, 1)

(***************************************************************************)
(* The input: the lines getline can return.                                *)
(***************************************************************************)
Word(a, b)  == a \o <<SP>> \o b
Par(a, b)   == a \o <<SP, AMP, SP>> \o b
Redir(a, t) == a \o <<SP, GT, SP>> \o t
NOPE   == <<"n">>
NODIR  == <<"/", "n">>
BinLs  == join(BIN, LS)

Lines ==
    { LS \o <<NL>>,                                          \* ls
      LS \o <<SP, AMP>> \o LS \o <<AMP, AMP, TAB>> \o LS \o <<CR, NL>>,  \* ls &ls&&<TAB>ls
      PATH \o <<NL>>,                                        \* path
      Word(PATH, BIN) \o <<NL>>,                             \* path /bin
      Word(Word(Word(PATH, USR), BIN), USR) \o <<NL>>,       \* path /u /bin /u
      Par(Par(PATH, LS), BinLs) \o <<NL>>,                   \* path & ls & /bin/ls
      Par(Word(PATH, USR), SH) \o <<NL>>,                    \* path /u & sh
      Par(Redir(Redir(LS, OUT), OUT), LS) \o <<NL>>,         \* ls > o > o & ls
      Par(EXIT \o <<GT, GT>>, Word(PATH, USR) \o <<GT>> \o OUT \o <<GT>>) \o <<NL>>, \* exit>> & path /u>o>
      Par(<<GT, SP>> \o OUT, LS) \o <<NL>>,                  \* > o & ls
      Par(Par(LS \o <<SP, GT>>, Word(Redir(LS, OUT), OUT)), LS) \o <<NL>>, \* ls > & ls > o o & ls
      EXIT \o <<NL>>,                                        \* exit
      Par(Word(EXIT, NOPE), LS) \o <<NL>>,                   \* exit n & ls
      Par(LS, EXIT) \o <<NL>>,                               \* ls & exit
      Word(CD, USR) \o <<NL>>,                               \* cd /u
      Par(Par(Par(CD, Word(Word(CD, USR), BIN)), Word(CD, NODIR)), LS) \o <<NL>>,
                                                             \* cd & cd /u /bin & cd /n & ls
      BinLs \o <<NL>>,                                       \* /bin/ls
      Par(join(NODIR, LS), SUB) \o <<NL>>,                   \* /n/ls & d
      Redir(LS, OUT) \o <<NL>>,                              \* ls > o
      Redir(LS, join(NODIR, OUT)) \o <<NL>>,                 \* ls > /n/o
      Par(Redir(Word(CD, USR), OUT), Redir(NOPE, OUT)) \o <<NL>>,  \* cd /u > o & n > o
      SH \o <<NL>>,                                          \* sh
      Par(Par(LS, Word(PATH, USR)), SH) \o <<NL>>,           \* ls & path /u & sh
      Par(Par(LS, LS), SUB) \o <<NL>>,                       \* ls & ls & d
      <<SP, AMP, TAB, CR, NL>> }                             \* a line without a command

(***************************************************************************)
(* State.                                                                  *)
(***************************************************************************)
VARIABLES
    pc,          \* where main is: "read", "dispatch", "wait", "done"
    exit_status, \* the status the interpreter ended with, -1 while it runs
    nread,       \* lines read so far
    segments,    \* segments of the current line
    i,           \* index of the for loop over segments
    kids,        \* kids[0..started-1]; started is Len(kids)
    w,           \* index of the wait loop
    g_path,      \* the path registry: [null, dirs]
    cwd,         \* working directory of the interpreter
    errno,       \* errno as the wait loop reads it
    procs,       \* process table: the children of the interpreter, by pid
    files,       \* per file, how often it has been created or truncated
    perr,        \* the calls of err() in the interpreter, per segment of the line
    spawned,     \* history: segment indexes of the line's successful forks
    last_path,   \* history: argv of the last `path` builtin run, NULL if none
    arg,         \* input of a function applied on its own
    ret          \* its result

vars == <<pc, exit_status, nread, segments, i, kids, w, g_path, cwd, errno,
          procs, files, perr, spawned, last_path, arg, ret>>

Pids == 1..MaxProcs

\* a process: its state, the line and segment it was forked for, what the
\* fork copied (prog, argv, redir_path, working directory), its calls of err()
Free == [st |-> "free", line |-> 0, seg |-> 0, prog |-> NULL, argv |-> NULL,
         redir |-> NULL, wd |-> NULL, errs |-> 0]

\* path_init
path_init == [null |-> FALSE, dirs |-> <<BIN>>]
\* path_free
path_free == [null |-> TRUE, dirs |-> <<>>]

\* main before the while loop: everything but pc, g_path, arg and ret
boot ==
    /\ exit_status = -1
    /\ nread = 0
    /\ segments = <<>>
    /\ i = 1
    /\ kids = <<>>
    /\ w = 1
    /\ cwd = HOME
    /\ errno = "0"
    /\ procs = [p \in Pids |-> Free]
    /\ files = [f \in Openable |-> 0]
    /\ perr = <<>>
    /\ spawned = <<>>
    /\ last_path = NULL

Init ==
    /\ pc = "read"
    /\ g_path = path_init
    /\ boot
    /\ arg = <<>>
    /\ ret = <<>>

(***************************************************************************)
(* main: reading a line.                                                   *)
(***************************************************************************)
main_unused == <<arg, ret>>

\* a pid is given out again once its process has been waited on
release(table) == [p \in Pids |-> IF table[p].st = "reaped" THEN Free ELSE table[p]]

\* where main goes after segment number k of the line: the next segment, the
\* wait loop, or (nothing to wait on) the top of the while loop
after_segment(k, segs, started) ==
    IF k < Len(segs) THEN "dispatch"
    ELSE IF started > 0 THEN "wait"
    ELSE "read"

\* getline returns a line: strip it, split it on '&', start the for loop
read_line ==
    /\ pc = "read"
    /\ nread < MaxLines
    /\ \E line \in Lines :
         LET segs == split_tokens(strip_newlines(line), {AMP}) IN
         /\ segments' = segs
         /\ perr' = [k \in 1..Len(segs) |-> <<>>]
         /\ pc' = after_segment(0, segs, 0)
    /\ nread' = nread + 1
    /\ i' = 1
    /\ kids' = <<>>
    /\ w' = 1
    /\ spawned' = <<>>
    /\ procs' = release(procs)
    /\ UNCHANGED <<exit_status, g_path, cwd, errno, files, last_path, main_unused>>

\* getline returns -1: break, path_free, return 0
end_of_input ==
    /\ pc = "read"
    /\ pc' = "done"
    /\ exit_status' = 0
    /\ g_path' = path_free
    /\ UNCHANGED <<nread, segments, i, kids, w, cwd, errno, procs, files, perr,
                   spawned, last_path, main_unused>>

(***************************************************************************)
(* main: one iteration of the for loop over the segments.                  *)
(***************************************************************************)
cmd == parse_cmd_with_redir(segments[i])

\* continue with the next segment; errs are the calls of err() made for this one
next_segment(errs, started) ==
    /\ perr' = [perr EXCEPT ![i] = @ \o errs]
    /\ i' = i + 1
    /\ pc' = after_segment(i, segments, started)

\* if (!cmd) continue;  (and the unreachable if (!cmd[0]) continue;)
parse_failed ==
    /\ pc = "dispatch"
    /\ cmd.argv = NULL
    /\ next_segment(cmd.errs, Len(kids))
    /\ UNCHANGED <<exit_status, nread, segments, kids, w, g_path, cwd, errno,
                   procs, files, spawned, last_path, main_unused>>

(***************************************************************************)
(* handle_builtin.                                                         *)
(***************************************************************************)
\* is_builtin, had the test for cd been left out
is_builtin_without_cd(argv) == argv # NULL /\ argv[1] \in {EXIT, PATH}

is_builtin(argv) == argv # NULL /\ argv[1] \in {EXIT, CD, PATH}

\* builtin_exit, had it not looked at argv[1]
builtin_exit_any_args ==
    /\ pc = "dispatch"
    /\ cmd.argv # NULL
    /\ cmd.argv[1] = EXIT
    /\ pc' = "done"
    /\ exit_status' = 0
    /\ g_path' = path_free
    /\ UNCHANGED <<i, perr, nread, segments, kids, w, cwd, errno, procs, files,
                   spawned, last_path, main_unused>>

\* builtin_exit, had path_free come before the look at argv[1]
builtin_exit_frees_first ==
    /\ pc = "dispatch"
    /\ cmd.argv # NULL
    /\ cmd.argv[1] = EXIT
    /\ g_path' = path_free
    /\ IF Len(cmd.argv) > 1
       THEN /\ next_segment(<<"exit">>, Len(kids))
            /\ UNCHANGED exit_status
       ELSE /\ pc' = "done"
            /\ exit_status' = 0
            /\ UNCHANGED <<i, perr>>
    /\ UNCHANGED <<nread, segments, kids, w, cwd, errno, procs, files, spawned,
                   last_path, main_unused>>

\* exit: with an argument err() and return 1, else path_free and exit(0)
builtin_exit ==
    /\ pc = "dispatch"
    /\ cmd.argv # NULL
    /\ cmd.argv[1] = EXIT
    /\ IF Len(cmd.argv) > 1
       THEN /\ next_segment(<<"exit">>, Len(kids))
            /\ UNCHANGED <<exit_status, g_path>>
       ELSE /\ pc' = "done"
            /\ exit_status' = 0
            /\ g_path' = path_free
            /\ UNCHANGED <<i, perr>>
    /\ UNCHANGED <<nread, segments, kids, w, cwd, errno, procs, files, spawned,
                   last_path, main_unused>>

\* builtin_cd, had it only required argv[1] and ignored further arguments
builtin_cd_first_arg ==
    /\ pc = "dispatch"
    /\ cmd.argv # NULL
    /\ cmd.argv[1] = CD
    /\ IF Len(cmd.argv) < 2
       THEN /\ next_segment(<<"cd_args">>, Len(kids))
            /\ cwd' = cwd
       ELSE IF chdir_ok(cwd, cmd.argv[2])
       THEN /\ next_segment(<<>>, Len(kids))
            /\ cwd' = abspath(cwd, cmd.argv[2])
       ELSE /\ next_segment(<<"chdir">>, Len(kids))
            /\ cwd' = cwd
    /\ UNCHANGED <<exit_status, nread, segments, kids, w, g_path, errno, procs,
                   files, spawned, last_path, main_unused>>

\* cd: exactly one argument, then chdir
builtin_cd ==
    /\ pc = "dispatch"
    /\ cmd.argv # NULL
    /\ cmd.argv[1] = CD
    /\ IF Len(cmd.argv) # 2
       THEN /\ next_segment(<<"cd_args">>, Len(kids))
            /\ cwd' = cwd
       ELSE IF chdir_ok(cwd, cmd.argv[2])
       THEN /\ next_segment(<<>>, Len(kids))
            /\ cwd' = abspath(cwd, cmd.argv[2])
       ELSE /\ next_segment(<<"chdir">>, Len(kids))
            /\ cwd' = cwd
    /\ UNCHANGED <<exit_status, nread, segments, kids, w, g_path, errno, procs,
                   files, spawned, last_path, main_unused>>

\* path_replace, had the arguments been added to the registry
path_append(old, argv) == [null |-> FALSE, dirs |-> old.dirs \o Tail(argv)]

\* path_replace, had `path` without arguments left the registry alone
path_replace_unless_empty(old, argv) ==
    IF Len(argv) = 1 THEN old ELSE [null |-> FALSE, dirs |-> Tail(argv)]

\* the registry after `path argv[1] argv[2] ...`
path_replace(old, argv) == [null |-> FALSE, dirs |-> Tail(argv)]

\* path: path_free, then the arguments become the registry
builtin_path ==
    /\ pc = "dispatch"
    /\ cmd.argv # NULL
    /\ cmd.argv[1] = PATH
    /\ g_path' = path_replace(g_path, cmd.argv)
    /\ last_path' = cmd.argv
    /\ next_segment(<<>>, Len(kids))
    /\ UNCHANGED <<exit_status, nread, segments, kids, w, cwd, errno, procs,
                   files, spawned, main_unused>>

(***************************************************************************)
(* run_external, in the interpreter: find the program, fork.               *)
(***************************************************************************)
has_slash(name) == \E k \in 1..Len(name) : name[k] = SLASH   \* strchr(argv[0], '/')

\* find_prog, had every name been looked up in the registry
find_prog_search_only(dirs, wd, argv) ==
    IF dirs = <<>>
    THEN [prog |-> NULL, errs |-> <<"empty_path">>]
    ELSE IF resolve_exec(dirs, wd, argv[1]) = NULL
    THEN [prog |-> NULL, errs |-> <<"resolve">>]
    ELSE [prog |-> resolve_exec(dirs, wd, argv[1]), errs |-> <<>>]

\* the value of prog before the fork; where the code calls err() and returns
\* -1 instead, prog is NULL and errs names the call
find_prog(dirs, wd, argv) ==
    IF has_slash(argv[1])
    THEN IF access_ok(wd, argv[1])
         THEN [prog |-> argv[1], errs |-> <<>>]
         ELSE [prog |-> NULL, errs |-> <<"access">>]
    ELSE IF dirs = <<>>                             \* !g_path || !g_path[0]
    THEN [prog |-> NULL, errs |-> <<"empty_path">>]
    ELSE IF resolve_exec(dirs, wd, argv[1]) = NULL
    THEN [prog |-> NULL, errs |-> <<"resolve">>]
    ELSE [prog |-> resolve_exec(dirs, wd, argv[1]), errs |-> <<>>]

is_external == pc = "dispatch" /\ cmd.argv # NULL /\ ~is_builtin(cmd.argv)

found == find_prog(g_path.dirs, cwd, cmd.argv)

free_pids == {p \in Pids : procs[p].st = "free"}

\* run_external_failed, had the return -1 come without err()
run_external_failed_silently ==
    /\ is_external
    /\ found.prog = NULL
    /\ next_segment(<<>>, Len(kids))
    /\ UNCHANGED <<exit_status, nread, segments, kids, w, g_path, cwd, errno,
                   procs, files, spawned, last_path, main_unused>>

\* run_external_failed, had main reported the -1 of run_external as well
run_external_failed_twice ==
    /\ is_external
    /\ found.prog = NULL
    /\ next_segment(found.errs \o <<"main">>, Len(kids))
    /\ UNCHANGED <<exit_status, nread, segments, kids, w, g_path, cwd, errno,
                   procs, files, spawned, last_path, main_unused>>

\* no program: err(), return -1
run_external_failed ==
    /\ is_external
    /\ found.prog = NULL
    /\ next_segment(found.errs, Len(kids))
    /\ UNCHANGED <<exit_status, nread, segments, kids, w, g_path, cwd, errno,
                   procs, files, spawned, last_path, main_unused>>

\* fork_failed, had the redirect file been opened before the fork
fork_failed_after_open ==
    /\ is_external
    /\ found.prog # NULL
    /\ next_segment(<<"fork">>, Len(kids))
    /\ files' = IF cmd.redir # NULL /\ open_ok(cwd, cmd.redir)
                THEN [files EXCEPT ![abspath(cwd, cmd.redir)] = @ + 1]
                ELSE files
    /\ UNCHANGED <<exit_status, nread, segments, kids, w, g_path, cwd, errno,
                   procs, spawned, last_path, main_unused>>

\* fork() < 0: err(), return -1
fork_failed ==
    /\ is_external
    /\ found.prog # NULL
    /\ next_segment(<<"fork">>, Len(kids))
    /\ UNCHANGED <<exit_status, nread, segments, kids, w, g_path, cwd, errno,
                   procs, files, spawned, last_path, main_unused>>

\* if (pid > 0 && started < sizeof(kids)/sizeof(kids[0])) kids[started++] = pid;
collect(handles, pid) ==
    IF Len(handles) < KidsCap THEN Append(handles, pid) ELSE handles

\* forked, had run_external waited for the child before it returned
forked_then_waited ==
    /\ is_external
    /\ found.prog # NULL
    /\ free_pids # {}
    /\ LET pid == CHOOSE p \in free_pids : \A q \in free_pids : p <= q IN
       /\ procs' = [procs EXCEPT ![pid] =
                       [st |-> "reaped", line |-> nread, seg |-> i, prog |-> found.prog,
                        argv |-> cmd.argv, redir |-> cmd.redir, wd |-> cwd,
                        errs |-> 0]]
       /\ kids' = kids
       /\ spawned' = Append(spawned, i)
       /\ next_segment(<<>>, Len(kids))
    /\ UNCHANGED <<exit_status, nread, segments, w, g_path, cwd, errno, files,
                   last_path, main_unused>>

\* fork() > 0: the child exists, run_external returns its pid, main collects it
forked ==
    /\ is_external
    /\ found.prog # NULL
    /\ free_pids # {}
    /\ LET pid == CHOOSE p \in free_pids : \A q \in free_pids : p <= q IN
       /\ procs' = [procs EXCEPT ![pid] =
                       [st |-> "created", line |-> nread, seg |-> i, prog |-> found.prog,
                        argv |-> cmd.argv, redir |-> cmd.redir, wd |-> cwd,
                        errs |-> 0]]
       /\ kids' = collect(kids, pid)
       /\ spawned' = Append(spawned, i)
       /\ next_segment(<<>>, Len(collect(kids, pid)))
    /\ UNCHANGED <<exit_status, nread, segments, w, g_path, cwd, errno, files,
                   last_path, main_unused>>

(***************************************************************************)
(* run_external, in the child p.                                           *)
(***************************************************************************)
\* if (redir_path): open, dup2 twice, close
child_redirect(p) ==
    /\ procs[p].st = "created"
    /\ procs[p].redir # NULL
    /\ IF open_ok(procs[p].wd, procs[p].redir)
       THEN /\ files' = [files EXCEPT ![abspath(procs[p].wd, procs[p].redir)] = @ + 1]
            /\ \/ procs' = [procs EXCEPT ![p].st = "redirected"]
               \/ procs' = [procs EXCEPT ![p].st = "failed", ![p].errs = @ + 1]
       ELSE /\ files' = files
            /\ procs' = [procs EXCEPT ![p].st = "failed", ![p].errs = @ + 1]
    /\ UNCHANGED <<pc, exit_status, nread, segments, i, kids, w, g_path, cwd,
                   errno, perr, spawned, last_path, main_unused>>

\* execv(prog, argv); err(); _exit(1);
child_execv(p) ==
    /\ \/ procs[p].st = "created" /\ procs[p].redir = NULL
       \/ procs[p].st = "redirected"
    /\ procs' = IF execv_ok(procs[p].wd, procs[p].prog)
                THEN [procs EXCEPT ![p].st = "running"]
                ELSE [procs EXCEPT ![p].st = "failed", ![p].errs = @ + 1]
    /\ UNCHANGED <<pc, exit_status, nread, segments, i, kids, w, g_path, cwd,
                   errno, files, perr, spawned, last_path, main_unused>>

\* the program the child became ends
child_exit(p) ==
    /\ procs[p].st = "running"
    /\ procs' = [procs EXCEPT ![p].st = "exited"]
    /\ UNCHANGED <<pc, exit_status, nread, segments, i, kids, w, g_path, cwd,
                   errno, files, perr, spawned, last_path, main_unused>>

(***************************************************************************)
(* main: the wait loop.                                                    *)
(***************************************************************************)
ended(p) == procs[p].st \in {"failed", "exited"}

\* waitpid(kids[i], NULL, 0) returns the pid: the child has ended
wait_returns ==
    /\ pc = "wait"
    /\ ended(kids[w])
    /\ procs' = [procs EXCEPT ![kids[w]].st = "reaped"]
    /\ w' = w + 1
    /\ pc' = IF w < Len(kids) THEN "wait" ELSE "read"
    /\ UNCHANGED <<exit_status, nread, segments, i, kids, g_path, cwd, errno,
                   files, perr, spawned, last_path, main_unused>>

\* wait_interrupted, had the for loop gone on after a failed waitpid
wait_interrupted_gives_up ==
    /\ pc = "wait"
    /\ ~ended(kids[w])
    /\ errno' = "EINTR"
    /\ w' = w + 1
    /\ pc' = IF w < Len(kids) THEN "wait" ELSE "read"
    /\ UNCHANGED <<exit_status, nread, segments, i, kids, g_path, cwd,
                   procs, files, perr, spawned, last_path, main_unused>>

\* waitpid(...) < 0 && errno == EINTR: the loop calls it again
wait_interrupted ==
    /\ pc = "wait"
    /\ ~ended(kids[w])
    /\ errno' = "EINTR"
    /\ UNCHANGED <<pc, exit_status, nread, segments, i, kids, w, g_path, cwd,
                   procs, files, perr, spawned, last_path, main_unused>>

Next ==
    \/ read_line
    \/ end_of_input
    \/ parse_failed
    \/ builtin_exit
    \/ builtin_cd
    \/ builtin_path
    \/ run_external_failed
    \/ fork_failed
    \/ forked
    \/ \E p \in Pids : child_redirect(p)
    \/ \E p \in Pids : child_execv(p)
    \/ \E p \in Pids : child_exit(p)
    \/ wait_returns
    \/ wait_interrupted

Spec == Init /\ [][Next]_vars

(***************************************************************************)
(* split_tokens applied on its own to every string of at most MaxLen       *)
(* characters, for several delimiter strings.                              *)
(***************************************************************************)
Chars == {"a", SP, TAB, AMP}

RECURSIVE Strings(_, _)
Strings(alphabet, n) ==
    IF n = 0 THEN {<<>>}
    ELSE LET shorter == Strings(alphabet, n - 1) IN
         shorter \cup {Append(t, c) : t \in shorter, c \in alphabet}

DelimSets == {{AMP}, {SP, TAB}, {AMP, SP}, {}}

main_state == <<exit_status, nread, segments, i, kids, w, cwd, errno, procs,
                files, perr, spawned, last_path>>

InitTok ==
    /\ pc = "call"
    /\ g_path = path_init
    /\ boot
    /\ arg \in [s : Strings(Chars, MaxLen), delims : DelimSets]
    /\ ret = <<>>

call_split_tokens ==
    /\ pc = "call"
    /\ ret' = split_tokens(arg.s, arg.delims)
    /\ pc' = "return"
    /\ UNCHANGED <<g_path, arg, main_state>>

SpecTok == InitTok /\ [][call_split_tokens]_vars

(***************************************************************************)
(* resolve_exec applied on its own to every registry of at most MaxPath    *)
(* directories.                                                            *)
(***************************************************************************)
RECURSIVE Registries(_, _)
Registries(pool, n) ==
    IF n = 0 THEN {<<>>}
    ELSE LET shorter == Registries(pool, n - 1) IN
         shorter \cup {Append(r, d) : r \in shorter, d \in pool}

InitResolve ==
    /\ pc = "call"
    /\ arg \in [dirs : Registries({BIN, USR, HOME, NODIR}, MaxPath),
                cmd : {LS, SH, SUB, NOPE}]
    /\ g_path = [null |-> FALSE, dirs |-> arg.dirs]
    /\ boot
    /\ ret = <<>>

call_resolve_exec ==
    /\ pc = "call"
    /\ ret' = resolve_exec(g_path.dirs, cwd, arg.cmd)
    /\ pc' = "return"
    /\ UNCHANGED <<g_path, arg, main_state>>

SpecResolve == InitResolve /\ [][call_resolve_exec]_vars

(***************************************************************************)
(* parse_cmd_with_redir applied on its own to every segment of at most     *)
(* MaxSeg characters.                                                      *)
(***************************************************************************)
SegChars == {"a", SP, TAB, GT}

InitParse ==
    /\ pc = "call"
    /\ g_path = path_init
    /\ boot
    /\ arg \in Strings(SegChars, MaxSeg)
    /\ ret = <<>>

call_parse_cmd_with_redir ==
    /\ pc = "call"
    /\ ret' = parse_cmd_with_redir(arg)
    /\ pc' = "return"
    /\ UNCHANGED <<g_path, arg, main_state>>

SpecParse == InitParse /\ [][call_parse_cmd_with_redir]_vars

(***************************************************************************)
(* Properties.                                                             *)
(***************************************************************************)
Range(f) == {f[k] : k \in DOMAIN f}

unwaited == {p \in Pids : procs[p].st \notin {"free", "reaped"}}

\* C1: every child forked while a line is processed has been waited on when
\* the interpreter is about to read the next line, however many external
\* segments the line has; no handle is dropped.
C1_children_waited_before_next_line ==
    pc = "read" => (unwaited = {} /\ Len(kids) = Len(spawned))

last == i - 1
dispatched(k) == k \in 1..Len(segments) /\ k < i
seg_cmd(k) == parse_cmd_with_redir(segments[k])
external_seg(k) == seg_cmd(k).argv # NULL /\ ~is_builtin(seg_cmd(k).argv)
bare_seg(k) == external_seg(k) /\ ~has_slash(seg_cmd(k).argv[1])

\* a step of main that dispatches segment i
dispatch_step == pc = "dispatch" /\ (i' # i \/ pc' # pc)

C4_two_redirects_rejected ==
    [][(dispatch_step /\ gt_count(segments[i]) >= 2) =>
          /\ perr'[i] = <<"gt_count">>
          /\ UNCHANGED <<procs, kids, spawned, g_path, last_path, cwd,
                         exit_status, files>>
          /\ i' = i + 1
          /\ pc' = IF i < Len(segments) THEN "dispatch"
                   ELSE IF kids = <<>> THEN "read" ELSE "wait"]_vars

\* a segment with two '>' was skipped and the next segment is being dispatched
C4_witness ==
    /\ pc = "dispatch"
    /\ dispatched(last)
    /\ gt_count(segments[last]) >= 2
    /\ perr[last] = <<"gt_count">>

\* C5: `exit` alone ends the interpreter with status 0; `exit` with arguments
\* reports one error, ends nothing, leaves the registry as it is (not
\* released), and main goes on with the next segment or the rest of the loop.
C5_exit_only_without_arguments ==
    [][(dispatch_step /\ cmd.argv # NULL /\ cmd.argv[1] = EXIT) =>
          IF Len(cmd.argv) = 1
          THEN pc' = "done" /\ exit_status' = 0
          ELSE /\ perr'[i] = <<"exit">>
               /\ exit_status' = -1
               /\ g_path' = g_path /\ ~g_path'.null
               /\ i' = i + 1
               /\ pc' = IF i < Len(segments) THEN "dispatch"
                        ELSE IF kids = <<>> THEN "read" ELSE "wait"]_vars

\* `exit n` was refused and the next segment of the line is being dispatched
C5_witness ==
    /\ pc = "dispatch"
    /\ dispatched(last)
    /\ seg_cmd(last).argv = <<EXIT, NOPE>>
    /\ perr[last] = <<"exit">>
    /\ exit_status = -1
    /\ ~g_path.null

\* C6: the working directory changes only in a `cd` with exactly one argument
\* whose chdir succeeds; with another number of arguments chdir is not tried,
\* and every failing `cd` reports one error and leaves the directory alone.
C6_cd_changes_directory_only_on_success ==
    [][/\ (dispatch_step /\ cmd.argv # NULL /\ cmd.argv[1] = CD) =>
             IF Len(cmd.argv) = 2 /\ chdir_ok(cwd, cmd.argv[2])
             THEN cwd' = abspath(cwd, cmd.argv[2]) /\ perr'[i] = <<>>
             ELSE /\ cwd' = cwd
                  /\ perr'[i] = IF Len(cmd.argv) = 2 THEN <<"chdir">>
                               ELSE <<"cd_args">>
       /\ cwd' # cwd =>
             /\ dispatch_step /\ cmd.argv # NULL /\ cmd.argv[1] = CD
             /\ Len(cmd.argv) = 2 /\ chdir_ok(cwd, cmd.argv[2])]_vars

\* after a `cd /u` on an earlier line, three failing `cd` left the directory
C6_witness ==
    /\ cwd = USR
    /\ Len(segments) = 4 /\ i = 4
    /\ \A k \in 1..3 : seg_cmd(k).argv[1] = CD
    /\ perr[1] = <<"cd_args">> /\ perr[2] = <<"cd_args">> /\ perr[3] = <<"chdir">>

\* C7: while the interpreter runs, the registry is ["/bin"] until the first
\* `path` and afterwards the arguments of the last `path` run, in their order,
\* duplicates kept, nothing of the earlier contents left.
C7_registry_is_last_path_arguments ==
    pc # "done" =>
        /\ ~g_path.null
        /\ g_path.dirs = IF last_path = NULL THEN << <<"/", "b", "i", "n">> >>
                         ELSE SubSeq(last_path, 2, Len(last_path))

\* `path /u /bin /u` replaced the registry
C7_witness ==
    /\ pc = "read"
    /\ nread >= 2
    /\ last_path = <<PATH, USR, BIN, USR>>
    /\ g_path.dirs = <<USR, BIN, USR>>

\* C8: resolve_exec returns directory/name for the first directory of the
\* registry whose candidate passes access(X_OK), NULL exactly when there is no
\* such directory (an empty registry included), and leaves the registry as is.
candidate(k) == arg.dirs[k] \o <<"/">> \o arg.cmd
hits == {k \in 1..Len(arg.dirs) : access_ok(cwd, candidate(k))}

C8_resolve_first_match ==
    pc = "return" =>
        /\ g_path.dirs = arg.dirs
        /\ (ret = NULL) <=> (arg.dirs = <<>> \/ hits = {})
        /\ hits # {} =>
              \E k \in hits : /\ \A j \in hits : k <= j
                              /\ ret = candidate(k)

\* ls is in /u and in /bin, not in /n: the registry /n /u /bin gives /u/ls
C8_witness ==
    /\ pc = "return"
    /\ arg = [dirs |-> <<NODIR, USR, BIN>>, cmd |-> LS]
    /\ ret = <<"/", "u", "/", "l", "s">>

\* C9: split_tokens returns, in their order, the maximal pieces of the input
\* without a delimiter, each with its leading and trailing spaces and tabs
\* removed, and leaves out the pieces with nothing else in them: no token is
\* empty, none begins or ends with a space or a tab.
piece_starts == {a \in 1..(Len(arg.s) + 1) : a = 1 \/ arg.s[a - 1] \in arg.delims}
piece_end(a) ==
    CHOOSE b \in (a - 1)..Len(arg.s) :
        /\ \A k \in a..b : arg.s[k] \notin arg.delims
        /\ b = Len(arg.s) \/ arg.s[b + 1] \in arg.delims
solid(a) == {k \in a..piece_end(a) : arg.s[k] \notin {" ", "\t"}}
kept_pieces == {a \in piece_starts : solid(a) # {}}
first_of(S) == CHOOSE k \in S : \A j \in S : k <= j
last_of(S) == CHOOSE k \in S : \A j \in S : j <= k

C9_tokens_are_trimmed_pieces ==
    pc = "return" =>
        /\ Len(ret) = Cardinality(kept_pieces)
        /\ \A a \in kept_pieces :
              ret[1 + Cardinality({b \in kept_pieces : b < a})]
                 = [k \in 1..(last_of(solid(a)) - first_of(solid(a)) + 1)
                       |-> arg.s[first_of(solid(a)) + k - 1]]
        /\ \A n \in 1..Len(ret) :
              /\ ret[n] # <<>>
              /\ ret[n][1] \notin {" ", "\t"}
              /\ ret[n][Len(ret[n])] \notin {" ", "\t"}

\* "a &&" split on '&': one token, the space after a removed, nothing for &&
C9_witness ==
    /\ pc = "return"
    /\ arg = [s |-> <<"a", " ", "&", "&">>, delims |-> {"&"}]
    /\ ret = << <<"a">> >>

\* C10: a segment that fails to parse (more than one '>', a redirect target
\* that is not one token, an empty command) is reported with one error and
\* skipped; nothing is forked for it and main goes on with the line.
C10_parse_failure_reported ==
    (dispatched(last) /\ seg_cmd(last).argv = NULL) =>
        /\ Len(perr[last]) = 1
        /\ last \notin Range(spawned)
        /\ pc # "done"

\* where main goes after the dispatch of segment i when it does not end
goes_on ==
    /\ i' = i + 1
    /\ pc' = IF i < Len(segments) THEN "dispatch"
             ELSE IF kids' = <<>> THEN "read" ELSE "wait"

\* the pids that did not exist before the step and exist after it
born == {p \in Pids : procs[p].st = "free" /\ procs'[p].st # "free"}

\* C11: when run_external fails in the interpreter (a bare name that does not
\* resolve, a path that is not executable, a failed fork) one error is
\* reported, no child exists for the segment, no handle is collected, and
\* main goes on with the line.
C11_spawn_failure_leaves_no_child ==
    [][(dispatch_step /\ is_external) =>
          /\ found.prog = NULL =>
                /\ perr'[i] = IF has_slash(cmd.argv[1]) THEN <<"access">>
                              ELSE IF g_path.dirs = <<>> THEN <<"empty_path">>
                              ELSE <<"resolve">>
                /\ born = {}
          /\ (found.prog # NULL /\ born = {}) => perr'[i] = <<"fork">>
          /\ perr'[i] # <<>> =>
                /\ procs' = procs
                /\ kids' = kids
                /\ spawned' = spawned
          /\ goes_on]_vars

\* a fork failed for the first segment and main is at the second one
C11_witness ==
    /\ pc = "dispatch"
    /\ i = 2
    /\ external_seg(1)
    /\ perr[1] = <<"fork">>
    /\ kids = <<>>
    /\ spawned = <<>>
    /\ \A p \in Pids : procs[p].line # nread

\* C12: while the child the wait loop waits on has not ended, no step (an
\* interrupted waitpid included) moves the loop to the next handle or main
\* to the next line, and no step marks the child as waited on; the loop
\* moves on from a handle only when waitpid has returned for an ended child.
C12_interrupted_wait_is_retried ==
    [][/\ (pc = "wait" /\ ~ended(kids[w])) =>
             /\ pc' = "wait"
             /\ w' = w
             /\ kids' = kids
             /\ nread' = nread
             /\ procs'[kids[w]].st # "reaped"
       /\ (pc = "wait" /\ (w' # w \/ pc' # "wait")) =>
             /\ ended(kids[w])
             /\ procs'[kids[w]].st = "reaped"
             /\ w' = w + 1]_vars

\* waitpid has been interrupted on the first line while its child still runs
C12_witness ==
    /\ pc = "wait"
    /\ nread = 1
    /\ errno = "EINTR"
    /\ procs[kids[w]].st = "running"

\* the states a child goes through, from fork to waitpid
lifecycle(p) ==
    \/ procs'[p] = procs[p]
    \/ /\ procs[p].st = "free"
       /\ procs'[p].st = "created"
    \/ /\ procs[p].st = "created"
       /\ procs[p].redir # NULL
       /\ procs'[p].st \in {"redirected", "failed"}
    \/ /\ procs[p].st = "created"
       /\ procs[p].redir = NULL
       /\ procs'[p].st \in {"running", "failed"}
    \/ /\ procs[p].st = "redirected"
       /\ procs'[p].st \in {"running", "failed"}
    \/ /\ procs[p].st = "running"
       /\ procs'[p].st = "exited"
    \/ /\ procs[p].st \in {"failed", "exited"}
       /\ procs'[p].st = "reaped"
    \/ /\ procs[p].st = "reaped"
       /\ procs'[p] = Free

\* a step taken by the child p, between its fork and its end
child_step(p) == procs[p].st \in {"created", "redirected", "running"} /\ procs'[p] # procs[p]

\* the variables of the interpreter's own process
interpreter == <<pc, exit_status, nread, segments, i, kids, w, g_path, cwd, errno,
                 perr, spawned, last_path>>

\* the handles the wait loop has still to wait on
pending == {kids[k] : k \in w..Len(kids)}

\* C13: a child goes Created -> Redirected -> Running or ends with a failure
\* on the way (a failed redirect never reaches execv), its steps change
\* nothing of the interpreter, and whenever a child has ended with a failure
\* the interpreter is still on that line holding the child's handle.
C13_child_lifecycle_and_handle_held ==
    [][/\ \A p \in Pids :
             /\ lifecycle(p)
             /\ child_step(p) => UNCHANGED interpreter
             /\ (child_step(p) /\ procs'[p].st = "failed") =>
                    procs'[p].errs = procs[p].errs + 1
       /\ \A p \in Pids : procs[p].st = "failed" =>
             /\ pc \in {"dispatch", "wait"}
             /\ p \in pending]_vars

\* the child of the step, if it has one, runs prog with the segment's argv
born_runs(prog) ==
    \A p \in born : procs'[p].prog = prog /\ procs'[p].argv = cmd.argv

\* C14 as stated: a name with '/' is spawned iff access(argv[0], X_OK)
\* succeeds, whatever the registry holds, and runs argv[0] itself; a name
\* without '/' is spawned iff resolve_exec finds it in the registry.
C14_spawned_iff_executable ==
    [][(dispatch_step /\ is_external) =>
          IF has_slash(cmd.argv[1])
          THEN /\ born # {} <=> access_ok(cwd, cmd.argv[1])
               /\ born_runs(cmd.argv[1])
          ELSE /\ born # {} <=> resolve_exec(g_path.dirs, cwd, cmd.argv[1]) # NULL
               /\ born_runs(resolve_exec(g_path.dirs, cwd, cmd.argv[1]))]_vars

\* C14, amended: a name with '/' is spawned iff access(argv[0], X_OK)
\* succeeds and fork does not fail, whatever the registry holds, and the
\* child runs argv[0] itself; a name without '/' is spawned iff resolve_exec
\* finds it in the registry and fork does not fail, and the child runs the
\* path resolve_exec returned.
C14_spawned_iff_executable_and_forked ==
    [][(dispatch_step /\ is_external) =>
          IF has_slash(cmd.argv[1])
          THEN /\ born # {} <=> (access_ok(cwd, cmd.argv[1]) /\ perr'[i] # <<"fork">>)
               /\ ~access_ok(cwd, cmd.argv[1]) => perr'[i] = <<"access">>
               /\ born_runs(cmd.argv[1])
          ELSE /\ born # {} <=> /\ resolve_exec(g_path.dirs, cwd, cmd.argv[1]) # NULL
                                /\ perr'[i] # <<"fork">>
               /\ born_runs(resolve_exec(g_path.dirs, cwd, cmd.argv[1]))]_vars

\* with an empty registry, /bin/ls has been spawned as /bin/ls
C14_witness ==
    /\ g_path.dirs = <<>>
    /\ ~g_path.null
    /\ \E p \in Pids :
          /\ procs[p].line = nread
          /\ procs[p].st = "running"
          /\ procs[p].argv[1] = BinLs
          /\ procs[p].prog = BinLs

\* a step in which the interpreter ends
terminates == pc # "done" /\ pc' = "done"

\* C15 as stated: once the first segment of a line has been dispatched, and
\* until the line's handles have been waited on, the registry is not
\* changed (the release of the registry by `exit` apart).
C15_registry_unchanged_within_line ==
    [][(pc \in {"dispatch", "wait"} /\ i > 1 /\ ~terminates) =>
          g_path' = g_path]_vars

\* C15, amended: the registry is changed by the interpreter alone, in the
\* dispatch of a `path` segment (wherever the segment stands in its line,
\* whether or not children of the line are still un-waited), where it
\* becomes the arguments of that `path`, and at termination, where it is
\* released; the steps of children, the wait loop and the reading of a line
\* leave it as it is.
C15_registry_changed_by_path_only ==
    [][g_path' # g_path =>
          \/ /\ dispatch_step
             /\ cmd.argv # NULL
             /\ cmd.argv[1] = PATH
             /\ g_path' = [null |-> FALSE, dirs |-> Tail(cmd.argv)]
          \/ /\ terminates
             /\ g_path'.null]_vars

\* `ls & path /u & sh`: the registry has become /u while ls is still running
C15_witness ==
    /\ pc \in {"dispatch", "wait"}
    /\ dispatched(2)
    /\ seg_cmd(2).argv = <<PATH, USR>>
    /\ g_path.dirs = <<USR>>
    /\ \E p \in Pids :
          /\ procs[p].line = nread
          /\ procs[p].seg = 1
          /\ procs[p].st = "running"

\* the calls of err() in handle_builtin and in run_external
builtin_errs  == {"exit", "cd_args", "chdir"}
external_errs == {"access", "empty_path", "resolve", "fork"}

\* C16: the dispatch of a segment whose first token is exit, cd or path
\* creates no child, collects no handle and reports no error of
\* run_external, whether the builtin succeeds or fails; the dispatch of a
\* segment with any other first token changes neither the registry nor the
\* working directory, does not end the interpreter and reports no error of
\* handle_builtin.
C16_builtins_run_in_process ==
    [][(dispatch_step /\ cmd.argv # NULL) =>
          IF cmd.argv[1] \in {EXIT, CD, PATH}
          THEN /\ procs' = procs
               /\ kids' = kids
               /\ spawned' = spawned
               /\ terminates \/ Range(perr'[i]) \cap external_errs = {}
          ELSE /\ g_path' = g_path
               /\ cwd' = cwd
               /\ last_path' = last_path
               /\ ~terminates
               /\ Range(perr'[i]) \cap builtin_errs = {}
               /\ born # {} \/ perr'[i] # <<>>]_vars

\* `cd & cd /u /bin & cd /n & ls`: three cd failed in the interpreter, no
\* child was made for them, and ls was spawned
C16_witness ==
    /\ Len(segments) = 4
    /\ dispatched(4)
    /\ perr = <<<<"cd_args">>, <<"cd_args">>, <<"chdir">>, <<>>>>
    /\ spawned = <<4>>
    /\ Len(kids) = 1
    /\ cwd = HOME

\* the places of '>' in a segment, and the text around the first one
gts(s) == {k \in 1..Len(s) : s[k] = GT}
first_gt(s) == CHOOSE k \in gts(s) : \A j \in gts(s) : k <= j
before_gt(s) == IF gts(s) = {} THEN s ELSE SubSeq(s, 1, first_gt(s) - 1)
after_gt(s) == IF gts(s) = {} THEN <<>> ELSE SubSeq(s, first_gt(s) + 1, Len(s))

\* at most one '>', one token after it if it is there, a token before it
well_formed(s) ==
    /\ Cardinality(gts(s)) <= 1
    /\ gts(s) # {} => Len(split_tokens(after_gt(s), WS)) = 1
    /\ Len(split_tokens(before_gt(s), WS)) >= 1

\* C17: parse_cmd_with_redir returns an argv exactly for the segments with
\* at most one '>', exactly one space/tab token after the '>' if there is
\* one, and at least one token before it; the argv is then the tokens of
\* the text before the '>' and the redirect path is the token after it (no
\* path without '>'); where it returns no argv it returns no path either.
C17_parse_succeeds_iff_well_formed ==
    pc = "return" =>
        /\ ret.argv # NULL <=> well_formed(arg)
        /\ well_formed(arg) =>
              /\ ret.argv = split_tokens(before_gt(arg), WS)
              /\ ret.redir = IF gts(arg) = {} THEN NULL
                             ELSE split_tokens(after_gt(arg), WS)[1]
        /\ ~well_formed(arg) => ret.redir = NULL

\* `a ><TAB>a` is parsed to the command a with the path a
C17_witness ==
    /\ pc = "return"
    /\ arg = <<"a", SP, GT, TAB, "a">>
    /\ ret.argv = <<<<"a">>>>
    /\ ret.redir = <<"a">>

\* C18: when the interpreter has ended, by `exit` or at the end of the
\* input, no child it forked is left that has not been waited on.
C18_terminates_with_children_waited ==
    pc = "done" => unwaited = {}

\* the file a child would open for its redirect
target(p) == abspath(procs[p].wd, procs[p].redir)

\* C19: a file is created or truncated only by the step of a child that
\* exists (fork returned 0 in it) and whose segment has a redirect, and it
\* is the target of that segment; no step of the interpreter creates or
\* truncates a file, so a segment that did not parse, a builtin, a command
\* that was not found and a failed fork leave their target as it was; and
\* every child that is about to open a file belongs to an external segment
\* for which run_external reported nothing.
C19_redirect_opened_in_child_only ==
    [][/\ files' # files =>
             /\ UNCHANGED interpreter
             /\ \E p \in Pids :
                   /\ procs[p].st = "created"
                   /\ procs[p].redir # NULL
                   /\ procs'[p].st \in {"redirected", "failed"}
                   /\ files' = [files EXCEPT ![target(p)] = @ + 1]
       /\ dispatch_step => files' = files
       /\ \A p \in Pids : (procs[p].st = "created" /\ procs[p].line = nread) =>
             /\ external_seg(procs[p].seg)
             /\ seg_cmd(procs[p].seg).redir = procs[p].redir
             /\ perr[procs[p].seg] = <<>>]_vars

\* `cd /u > o & n > o` has been dispatched: the cd was done, n was not
\* found, and no file has been created
C19_witness ==
    /\ Len(segments) = 2
    /\ dispatched(2)
    /\ seg_cmd(1).argv = <<CD, USR>>
    /\ seg_cmd(1).redir = OUT
    /\ seg_cmd(2).redir = OUT
    /\ perr = <<<<>>, <<"resolve">>>>
    /\ cwd = USR
    /\ \A f \in Openable : files[f] = 0

\* C20: err() is called at most once for a segment: the interpreter calls it
\* at most once per segment, a child calls it at most once, and a child
\* exists only for a segment for which the interpreter did not call it.
C20_one_error_per_segment ==
    /\ \A k \in 1..Len(perr) : Len(perr[k]) <= 1
    /\ \A p \in Pids :
          /\ procs[p].errs <= 1
          /\ procs[p].errs = 1 => procs[p].st \in {"failed", "reaped"}
          /\ (procs[p].st # "free" /\ procs[p].line = nread) =>
                perr[procs[p].seg] = <<>>
    /\ \A k \in Range(spawned) : perr[k] = <<>>

\* `/n/ls & d`: the interpreter reported for /n/ls, the child of d reported
\* its failed execv
C20_witness ==
    /\ Len(segments) = 2
    /\ perr = <<<<"access">>, <<>>>>
    /\ spawned = <<2>>
    /\ \E p \in Pids :
          /\ procs[p].line = nread
          /\ procs[p].seg = 2
          /\ procs[p].st = "failed"
          /\ procs[p].errs = 1

====
